---- MODULE Spec2Model ----
(***************************************************************************)
(* Model of images/set3/formatSet.py: the batch pipeline that composites,  *)
(* LZW-compresses and republishes every TIFF of the working directory,     *)
(* writes one thumbnail per asset and a manifest of the base names.        *)
(*                                                                         *)
(* File names are sequences of one-character strings, so that Path.suffix, *)
(* Path.stem, Path.with_suffix, str.lower and natural_sort_key are         *)
(* computed character by character as pathlib and re compute them.         *)
(***************************************************************************)
EXTENDS Integers, Sequences, FiniteSets, TLC

\* ------------------------------------------------------------ bounds

\* Largest number of files the working directory holds when main() starts.
MaxFiles == 2

\* ------------------------------------------------------------ characters

DigitChars == <<"0", "1", "2", "3", "4", "5", "6", "7", "8", "9">>

UpperChars == <<"A", "B", "C", "D", "E", "F", "G", "H", "I", "J", "K", "L", "M",
                "N", "O", "P", "Q", "R", "S", "T", "U", "V", "W", "X", "Y", "Z">>

LowerChars == <<"a", "b", "c", "d", "e", "f", "g", "h", "i", "j", "k", "l", "m",
                "n", "o", "p", "q", "r", "s", "t", "u", "v", "w", "x", "y", "z">>

\* The characters of the model in code point order (str < str compares code points).
CodePointOrder == <<"-", ".">> \o DigitChars \o UpperChars \o <<"_">> \o LowerChars

\* The position of each character in a sequence of distinct characters.
IndexIn(chars) ==
    [c \in {chars[i] : i \in DOMAIN chars} |-> CHOOSE i \in DOMAIN chars : chars[i] = c]

DigitIndex == IndexIn(DigitChars)

UpperIndex == IndexIn(UpperChars)

CodePoint == IndexIn(CodePointOrder)

IsDigit(c) == c \in DOMAIN DigitIndex

DigitVal(c) == DigitIndex[c] - 1

Ord(c) == CodePoint[c]

\* str.lower() on one character, then on a string.
LowerChar(c) == IF c \in DOMAIN UpperIndex THEN LowerChars[UpperIndex[c]] ELSE c

Lower(s) == [i \in 1..Len(s) |-> LowerChar(s[i])]

\* ------------------------------------------------------------ pathlib

\* The last position <= i of name that holds a dot; 0 when there is none.
RECURSIVE RFindDotFrom(_, _)
RFindDotFrom(name, i) ==
    IF i = 0 THEN 0
    ELSE IF name[i] = "." THEN i
    ELSE RFindDotFrom(name, i - 1)

\* name.rfind("."), 1-based; 0 when the name has no dot.
RFindDot(name) == RFindDotFrom(name, Len(name))

\* PurePath.suffix: the last dot and what follows it, unless that dot is the
\* first or the last character of the name.
Suffix(name) ==
    LET i == RFindDot(name)
    IN  IF 1 < i /\ i < Len(name) THEN SubSeq(name, i, Len(name)) ELSE <<>>

\* PurePath.stem: the name without its suffix.
Stem(name) ==
    LET i == RFindDot(name)
    IN  IF 1 < i /\ i < Len(name) THEN SubSeq(name, 1, i - 1) ELSE name

\* PurePath.with_suffix(suffix): the old suffix is cut off, the new one appended.
WithSuffix(name, suffix) ==
    SubSeq(name, 1, Len(name) - Len(Suffix(name))) \o suffix

BakExt == <<".", "b", "a", "k">>
RgbTmpExt == <<".", "r", "g", "b", ".", "t", "m", "p", ".", "t", "i", "f">>
LzwTmpExt == <<".", "l", "z", "w", ".", "t", "m", "p", ".", "t", "i", "f">>

\* safe_replace: backup = original.with_suffix(original.suffix + ".bak")
BackupPath(original) == WithSuffix(original, Suffix(original) \o BakExt)

\* combine_channels_if_needed: in_path.with_suffix(in_path.suffix + ".rgb.tmp.tif")
TempCombinedPath(in_path) == WithSuffix(in_path, Suffix(in_path) \o RgbTmpExt)

\* lzw_compress_tiff_inplace: in_path.with_suffix(in_path.suffix + ".lzw.tmp.tif")
TempOutPath(in_path) == WithSuffix(in_path, Suffix(in_path) \o LzwTmpExt)

\* tiff_exts = {".tif", ".tiff"}
tiff_exts == {<<".", "t", "i", "f">>, <<".", "t", "i", "f", "f">>}

\* p.suffix.lower() in tiff_exts
IsTiffName(name) == Lower(Suffix(name)) \in tiff_exts

\* ------------------------------------------------------------ natural_sort_key

\* The end of the maximal run (of digits, or of non-digits) that starts at i.
RECURSIVE RunEnd(_, _)
RunEnd(s, i) ==
    IF i < Len(s) /\ IsDigit(s[i + 1]) = IsDigit(s[i]) THEN RunEnd(s, i + 1) ELSE i

\* int(t) of a run of decimal digits.
RECURSIVE IntOf(_)
IntOf(t) ==
    IF t = <<>> THEN 0 ELSE 10 * IntOf(SubSeq(t, 1, Len(t) - 1)) + DigitVal(t[Len(t)])

\* One element of the key: int(t) if t.isdigit() else t.lower().
KeyToken(t) ==
    IF IsDigit(t[1])
    THEN [isInt |-> TRUE, num |-> IntOf(t), str |-> <<>>]
    ELSE [isInt |-> FALSE, num |-> 0, str |-> Lower(t)]

\* re.findall(r"\d+|\D+", s) mapped through KeyToken, from position i on.
RECURSIVE KeyFrom(_, _)
KeyFrom(s, i) ==
    IF i > Len(s) THEN <<>>
    ELSE LET e == RunEnd(s, i)
         IN  <<KeyToken(SubSeq(s, i, e))>> \o KeyFrom(s, e + 1)

natural_sort_key(s) == KeyFrom(s, 1)

\* str < str: the first differing code point decides, a proper prefix is smaller.
RECURSIVE StrLess(_, _)
StrLess(a, b) ==
    IF b = <<>> THEN FALSE
    ELSE IF a = <<>> THEN TRUE
    ELSE IF a[1] # b[1] THEN Ord(a[1]) < Ord(b[1])
    ELSE StrLess(Tail(a), Tail(b))

\* list < list as CPython evaluates it: skip the leading elements that are ==
\* (an int is never == a str), then compare the first pair that differs with <,
\* which raises TypeError between an int and a str.  "T", "F" or "E" (raised).
RECURSIVE KeyLess(_, _)
KeyLess(a, b) ==
    IF b = <<>> THEN "F"
    ELSE IF a = <<>> THEN "T"
    ELSE IF a[1] = b[1] THEN KeyLess(Tail(a), Tail(b))
    ELSE IF a[1].isInt # b[1].isInt THEN "E"
    ELSE IF a[1].isInt THEN (IF a[1].num < b[1].num THEN "T" ELSE "F")
    ELSE (IF StrLess(a[1].str, b[1].str) THEN "T" ELSE "F")

\* sorted(items, key=natural_sort_key(stem)): a stable sort that compares with <
\* only.  Insert x into the sorted prefix acc, scanning from its right end; the
\* result is [raised |-> TRUE] when a comparison raises TypeError.  Every
\* comparison sort has to compare some int-first key with some str-first key when
\* both kinds occur, so which elements it compares does not change whether it raises.
RECURSIVE InsertByKey(_, _, _)
InsertByKey(acc, x, i) ==
    IF i = 0 THEN [raised |-> FALSE, val |-> <<x>> \o acc]
    ELSE LET c == KeyLess(natural_sort_key(Stem(x)), natural_sort_key(Stem(acc[i])))
         IN  IF c = "E" THEN [raised |-> TRUE, val |-> <<>>]
             ELSE IF c = "T" THEN InsertByKey(acc, x, i - 1)
             ELSE [raised |-> FALSE,
                   val |-> SubSeq(acc, 1, i) \o <<x>> \o SubSeq(acc, i + 1, Len(acc))]

RECURSIVE SortedFrom(_, _, _)
SortedFrom(items, acc, i) ==
    IF i > Len(items) THEN [raised |-> FALSE, val |-> acc]
    ELSE LET r == InsertByKey(acc, items[i], Len(acc))
         IN  IF r.raised THEN r ELSE SortedFrom(items, r.val, i + 1)

Sorted(items) == SortedFrom(items, <<>>, 1)

\* ------------------------------------------------------------ files

\* The content of a file: the initial file its data comes from and the tool
\* operations applied to that data since ("rgb011", "rgb012", "lzw", "thumb",
\* and "partial" for what a failed tool run left behind).
Original(p) == [src |-> p, ops |-> <<>>]

Apply(c, op) == [src |-> c.src, ops |-> Append(c.ops, op)]

NoPath == <<>>

Remove(f, p) == [q \in DOMAIN f \ {p} |-> f[q]]

Put(f, p, c) == [q \in DOMAIN f \cup {p} |-> IF q = p THEN c ELSE f[q]]

\* Path.replace(target): os.replace, which overwrites an existing target.
Rename(f, from, to) == Put(Remove(f, from), to, f[from])

\* The file names a working directory may hold when a run starts: assets
\* whose stems start with a letter and with a digit, two spellings of one stem,
\* the leftovers of an interrupted earlier run, and a file that is no TIFF.
Pool ==
    { <<"b", "9", ".", "t", "i", "f">>,
      <<"b", "9", ".", "T", "I", "F", "F">>,
      <<"2", "a", ".", "t", "i", "f">>,
      <<"b", "9", ".", "t", "i", "f">> \o BakExt,
      <<"b", "9", ".", "t", "i", "f">> \o RgbTmpExt,
      <<"n", "o", "t", "e", "s", ".", "t", "x", "t">> }

\* What the page-count query may print (stdout or stderr, stripped).
IdentifyOutputs ==
    { <<"1">>, <<"2">>, <<"3">>, <<"4">>, <<"0">>, <<"-", "1">>, <<"x">>, <<>> }

\* int(txt): an optional sign and at least one decimal digit, else ValueError.
ParseInt(txt) ==
    LET signed == txt # <<>> /\ txt[1] = "-"
        digits == IF signed THEN Tail(txt) ELSE txt
    IN  IF digits # <<>> /\ \A i \in 1..Len(digits) : IsDigit(digits[i])
        THEN [ok |-> TRUE, val |-> IF signed THEN 0 - IntOf(digits) ELSE IntOf(digits)]
        ELSE [ok |-> FALSE, val |-> 0]

\* identify_num_pages, after run_cmd returned: int(txt), or 1 when that raises.
PagesFromOutput(txt) == IF ParseInt(txt).ok THEN ParseInt(txt).val ELSE 1

\* All orders in which root.iterdir() may list the files of a set.
Perms(S) ==
    { s \in [1..Cardinality(S) -> S] : \A i, j \in 1..Cardinality(S) : i # j => s[i] # s[j] }

\* ------------------------------------------------------------ state

VARIABLES
    fs,              \* the files of the working directory: name -> content
    thumbs,          \* the files of thumbs/: base name -> content of <base>.jpg
    thumbsDir,       \* whether thumbs/ exists
    im_cmd,          \* main: im_cmd; "none" for None, "unset" before the lookup, and
                     \* "magick" for either tool found ("magick" and "convert" run
                     \* the same steps, the argument lists differ in word order only)
    pc,              \* the statement main() is about to execute
    tiff_files,      \* main: tiff_files, in root.iterdir() order
    order,           \* main: the list the for loop iterates over
    idx,             \* main: position of the for loop in order
    basenames,       \* main: basenames
    n_pages,         \* combine_channels_if_needed: n_pages (0 outside the call)
    combined_path,   \* main: combined_path (NoPath when unset)
    temp_lzw,        \* main: temp_lzw (NoPath when unset)
    manifest,        \* manifest.json: whether it exists and the list it holds
    manifestWrites,  \* history: how often manifest.json was written
    exitStatus,      \* "running", "success" (status 0), "failure" (sys.exit(1)),
                     \* "traceback" (uncaught exception, status 1)
    initial,         \* history: the files of the working directory when main() started
    pre,             \* history: the files as safe_replace found them when called
    log              \* history: the steps executed, in order

vars == <<fs, thumbs, thumbsDir, im_cmd, pc, tiff_files, order, idx, basenames,
          n_pages, combined_path, temp_lzw, manifest, manifestWrites, exitStatus,
          initial, pre, log>>

\* The loop variable of main() and what is derived from it.
tiff == order[idx]

base == Stem(tiff)

Exists(p) == p \in DOMAIN fs

NoFiles == [p \in {} |-> Original(p)]

Event(step, ok, raised, input) ==
    [asset |-> idx, step |-> step, ok |-> ok, raised |-> raised, input |-> input]

\* A step that completed, or whose failure was swallowed by its own try/except.
Logged(step, ok, input) == log' = Append(log, Event(step, ok, FALSE, input))

\* Mutant of Raise: the handler also takes the failed asset's name off the list.
RaiseForgetsBasename(step, input) ==
    /\ log' = Append(log, Event(step, FALSE, TRUE, input))
    /\ idx' = idx + 1
    /\ pc' = "loop"
    /\ n_pages' = 0
    /\ combined_path' = NoPath
    /\ temp_lzw' = NoPath
    /\ basenames' = SubSeq(basenames, 1, Len(basenames) - 1)
    /\ UNCHANGED order

\* Mutant of Raise: the handler leaves the loop (break) instead of going on.
RaiseAbortsBatch(step, input) ==
    /\ log' = Append(log, Event(step, FALSE, TRUE, input))
    /\ idx' = Len(order) + 1
    /\ pc' = "loop"
    /\ n_pages' = 0
    /\ combined_path' = NoPath
    /\ temp_lzw' = NoPath
    /\ UNCHANGED <<basenames, order>>

\* main, "except Exception ... continue": a step of the current asset raised; the
\* rest of the loop body is skipped and the loop goes on with the next asset.
Raise(step, input) ==
    /\ log' = Append(log, Event(step, FALSE, TRUE, input))
    /\ idx' = idx + 1
    /\ pc' = "loop"
    /\ n_pages' = 0
    /\ combined_path' = NoPath
    /\ temp_lzw' = NoPath
    /\ UNCHANGED <<basenames, order>>

\* What a failed tool run may leave at its output path: nothing new, or a
\* partial file.
AfterFailedWrite(in_path, out_path, op) ==
    {fs} \cup (IF Exists(in_path)
               THEN {Put(fs, out_path, Apply(Apply(fs[in_path], op), [name |-> "partial", pages |-> <<>>]))}
               ELSE {})

\* Mutant of CombineOp: page [2] is read whatever the page count.
CombineOpAlwaysThree(n) == [name |-> "combine", pages |-> <<0, 1, 2>>]

\* combine_channels_if_needed: the pages the tool is told to combine.
CombineOp(n) ==
    [name |-> "combine", pages |-> IF n >= 3 THEN <<0, 1, 2>> ELSE <<0, 1, 1>>]

LzwOp == [name |-> "lzw", pages |-> <<>>]

ThumbOp == [name |-> "thumbnail", pages |-> <<>>]

Init ==
    /\ \E S \in SUBSET Pool :
          /\ Cardinality(S) <= MaxFiles
          /\ fs = [p \in S |-> Original(p)]
    /\ initial = fs
    /\ thumbs = NoFiles
    /\ thumbsDir \in BOOLEAN
    /\ im_cmd = "unset"
    /\ pc = "start"
    /\ tiff_files = <<>>
    /\ order = <<>>
    /\ idx = 0
    /\ basenames = <<>>
    /\ n_pages = 0
    /\ combined_path = NoPath
    /\ temp_lzw = NoPath
    /\ manifest = [exists |-> FALSE, basenames |-> <<>>]
    /\ manifestWrites = 0
    /\ exitStatus = "running"
    /\ pre = NoFiles
    /\ log = <<>>

\* ------------------------------------------------------------ main: startup

\* thumbs_dir.mkdir(exist_ok=True)
MakeThumbsDir ==
    /\ pc = "start"
    /\ thumbsDir' = TRUE
    /\ pc' = "find_tool"
    /\ UNCHANGED <<fs, thumbs, im_cmd, tiff_files, order, idx, basenames, n_pages,
                   combined_path, temp_lzw, manifest, manifestWrites, exitStatus,
                   initial, pre, log>>

\* im_cmd, mode = find_imagemagick_cmd(); if not im_cmd: ... sys.exit(1)
FindTool ==
    /\ pc = "find_tool"
    /\ \E c \in {"magick", "none"} :
          /\ im_cmd' = c
          /\ IF c = "none"
             THEN pc' = "exited" /\ exitStatus' = "failure"
             ELSE pc' = "enumerate" /\ exitStatus' = exitStatus
    /\ UNCHANGED <<fs, thumbs, thumbsDir, tiff_files, order, idx, basenames, n_pages,
                   combined_path, temp_lzw, manifest, manifestWrites, initial, pre, log>>

\* tiff_files = [p for p in root.iterdir() if p.is_file() and p.suffix.lower() in tiff_exts ...]
Enumerate ==
    /\ pc = "enumerate"
    /\ \E s \in Perms({p \in DOMAIN fs : IsTiffName(p)}) : tiff_files' = s
    /\ pc' = "check_empty"
    /\ UNCHANGED <<fs, thumbs, thumbsDir, im_cmd, order, idx, basenames, n_pages,
                   combined_path, temp_lzw, manifest, manifestWrites, exitStatus,
                   initial, pre, log>>

\* Mutant of EmptyManifest: the early return writes no file.
NoManifestWritten == [exists |-> FALSE, basenames |-> <<>>]

\* json.dump({"basenames": []}, f, indent=2)
EmptyManifest == [exists |-> TRUE, basenames |-> <<>>]

\* if not tiff_files: write {"basenames": []} and return
NoTiffs ==
    /\ pc = "check_empty"
    /\ tiff_files = <<>>
    /\ manifest' = EmptyManifest
    /\ manifestWrites' = manifestWrites + 1
    /\ exitStatus' = "success"
    /\ pc' = "exited"
    /\ UNCHANGED <<fs, thumbs, thumbsDir, im_cmd, tiff_files, order, idx, basenames,
                   n_pages, combined_path, temp_lzw, initial, pre, log>>

\* basenames = []; sorted(tiff_files, key=lambda p: natural_sort_key(p.stem)).
\* A TypeError raised by the sort is caught nowhere: the interpreter prints the
\* traceback and exits with status 1.
SortAssets ==
    /\ pc = "check_empty"
    /\ tiff_files # <<>>
    /\ LET r == Sorted(tiff_files)
       IN  IF r.raised
           THEN /\ pc' = "exited"
                /\ exitStatus' = "traceback"
                /\ UNCHANGED <<order, idx>>
           ELSE /\ order' = r.val
                /\ idx' = 1
                /\ pc' = "loop"
                /\ exitStatus' = exitStatus
    /\ basenames' = <<>>
    /\ UNCHANGED <<fs, thumbs, thumbsDir, im_cmd, tiff_files, n_pages, combined_path,
                   temp_lzw, manifest, manifestWrites, initial, pre, log>>

\* Mutant of AppendBase: an entry already on the list is replaced by the new one.
LastWriterWins(list, b) == Append(SelectSeq(list, LAMBDA x : x # b), b)

\* basenames.append(base)
AppendBase(list, b) == Append(list, b)

\* for tiff in ...: base = tiff.stem; basenames.append(base)
NextAsset ==
    /\ pc = "loop"
    /\ idx <= Len(order)
    /\ basenames' = AppendBase(basenames, base)
    /\ pre' = NoFiles
    /\ pc' = "identify"
    /\ UNCHANGED <<fs, thumbs, thumbsDir, im_cmd, tiff_files, order, idx, n_pages,
                   combined_path, temp_lzw, manifest, manifestWrites, exitStatus, initial, log>>

\* Step D, after the loop: json.dump({"basenames": basenames}), then return.
WriteManifest ==
    /\ pc = "loop"
    /\ idx > Len(order)
    /\ manifest' = [exists |-> TRUE, basenames |-> basenames]
    /\ manifestWrites' = manifestWrites + 1
    /\ exitStatus' = "success"
    /\ pc' = "exited"
    /\ UNCHANGED <<fs, thumbs, thumbsDir, im_cmd, tiff_files, order, idx, basenames,
                   n_pages, combined_path, temp_lzw, initial, pre, log>>

\* ------------------------------------------------------------ main: one asset

\* n_pages = identify_num_pages(im_cmd, in_path): run_cmd raises when the tool
\* returns non-zero (always so for a file that is not there); otherwise the
\* printed text is parsed, 1 standing in for a text that is no integer.
Identify ==
    /\ pc = "identify"
    /\ \/ /\ Exists(tiff)
          /\ \E txt \in IdentifyOutputs : n_pages' = PagesFromOutput(txt)
          /\ Logged("identify", TRUE, tiff)
          /\ pc' = "combine_check"
          /\ UNCHANGED <<idx, basenames, order, combined_path, temp_lzw>>
       \/ Raise("identify", tiff)
    /\ UNCHANGED <<fs, thumbs, thumbsDir, im_cmd, tiff_files, manifest, manifestWrites,
                   exitStatus, initial, pre>>

\* Mutant of NothingToCombine: only a file without pages is passed through.
NoPagesAtAll(n) == n <= 0

\* if n_pages <= 1: return in_path
NothingToCombine(n) == n <= 1

\* combine_channels_if_needed, up to the tool run: return in_path when
\* n_pages <= 1; else remove a stale temp_combined, ignoring a failure to.
CombineCheck ==
    /\ pc = "combine_check"
    /\ IF NothingToCombine(n_pages)
       THEN /\ combined_path' = tiff
            /\ n_pages' = 0
            /\ pc' = "lzw_stale"
            /\ UNCHANGED <<fs, log>>
       ELSE /\ pc' = "combine_run"
            /\ UNCHANGED <<combined_path, n_pages>>
            /\ IF Exists(TempCombinedPath(tiff))
               THEN \/ /\ fs' = Remove(fs, TempCombinedPath(tiff))
                       /\ Logged("unlink_stale_rgb", TRUE, TempCombinedPath(tiff))
                    \/ /\ fs' = fs
                       /\ Logged("unlink_stale_rgb", FALSE, TempCombinedPath(tiff))
               ELSE UNCHANGED <<fs, log>>
    /\ UNCHANGED <<thumbs, thumbsDir, im_cmd, tiff_files, order, idx, basenames,
                   temp_lzw, manifest, manifestWrites, exitStatus, initial, pre>>

\* combine_channels_if_needed, the tool run: pages [0], [1], [2] for n_pages >= 3,
\* pages [0], [1], [1] for n_pages == 2, combined into temp_combined.
CombineRun ==
    /\ pc = "combine_run"
    /\ \/ /\ Exists(tiff)
          /\ fs' = Put(fs, TempCombinedPath(tiff), Apply(fs[tiff], CombineOp(n_pages)))
          /\ combined_path' = TempCombinedPath(tiff)
          /\ n_pages' = 0
          /\ Logged("combine", TRUE, tiff)
          /\ pc' = "lzw_stale"
          /\ UNCHANGED <<idx, basenames, order, temp_lzw>>
       \/ /\ fs' \in AfterFailedWrite(tiff, TempCombinedPath(tiff), CombineOp(n_pages))
          /\ Raise("combine", tiff)
    /\ UNCHANGED <<thumbs, thumbsDir, im_cmd, tiff_files, manifest, manifestWrites,
                   exitStatus, initial, pre>>

\* lzw_compress_tiff_inplace, up to the tool run: remove a stale temp_out,
\* ignoring a failure to.
LzwStale ==
    /\ pc = "lzw_stale"
    /\ pc' = "lzw_run"
    /\ IF Exists(TempOutPath(combined_path))
       THEN \/ /\ fs' = Remove(fs, TempOutPath(combined_path))
               /\ Logged("unlink_stale_lzw", TRUE, TempOutPath(combined_path))
            \/ /\ fs' = fs
               /\ Logged("unlink_stale_lzw", FALSE, TempOutPath(combined_path))
       ELSE UNCHANGED <<fs, log>>
    /\ UNCHANGED <<thumbs, thumbsDir, im_cmd, tiff_files, order, idx, basenames,
                   n_pages, combined_path, temp_lzw, manifest, manifestWrites,
                   exitStatus, initial, pre>>

\* Where lzw_compress_tiff_inplace has the tool write its output.
CompressTarget(in_path) == TempOutPath(in_path)

\* lzw_compress_tiff_inplace, the tool run: in_path -compress LZW temp_out.
LzwRun ==
    /\ pc = "lzw_run"
    /\ \/ /\ Exists(combined_path)
          /\ fs' = Put(fs, CompressTarget(combined_path), Apply(fs[combined_path], LzwOp))
          /\ temp_lzw' = CompressTarget(combined_path)
          /\ Logged("compress", TRUE, combined_path)
          /\ pc' = "sr_stale"
          /\ UNCHANGED <<idx, basenames, order, n_pages, combined_path>>
       \/ /\ fs' \in AfterFailedWrite(combined_path, CompressTarget(combined_path), LzwOp)
          /\ Raise("compress", combined_path)
    /\ UNCHANGED <<thumbs, thumbsDir, im_cmd, tiff_files, manifest, manifestWrites,
                   exitStatus, initial, pre>>

\* ------------------------------------------------------------ safe_replace

\* Mutant of MoveToBackup: the original is copied to the backup, not moved.
CopyToBackup(f, original) == Put(f, BackupPath(original), f[original])

\* original.replace(backup)
MoveToBackup(f, original) == Rename(f, original, BackupPath(original))

\* Mutant of ReplaceWithNew: the new content is moved onto the backup path.
ReplaceOntoBackup(f, original, newfile) == Rename(f, newfile, BackupPath(original))

\* newfile.replace(original)
ReplaceWithNew(f, original, newfile) == Rename(f, newfile, original)

\* Mutant of DropBackup: the backup is left in place.
KeepBackup(f, original) == f

\* backup.unlink(), when it succeeds
DropBackup(f, original) == Remove(f, BackupPath(original))

\* Mutant of UnlinkBakFailed: the failure puts the backup back in place.
RollBackPublish(f, original) ==
    IF BackupPath(original) \in DOMAIN f
    THEN Rename(f, BackupPath(original), original)
    ELSE f

\* backup.unlink() raised, "except Exception: pass": nothing else is done.
UnlinkBakFailed(f, original) == f

\* safe_replace(tiff, temp_lzw), entry: remove a stale backup, ignoring a failure to.
SrStale ==
    /\ pc = "sr_stale"
    /\ pre' = fs
    /\ pc' = "sr_rename_orig"
    /\ IF Exists(BackupPath(tiff))
       THEN \/ /\ fs' = Remove(fs, BackupPath(tiff))
               /\ Logged("unlink_stale_bak", TRUE, BackupPath(tiff))
            \/ /\ fs' = fs
               /\ Logged("unlink_stale_bak", FALSE, BackupPath(tiff))
       ELSE UNCHANGED <<fs, log>>
    /\ UNCHANGED <<thumbs, thumbsDir, im_cmd, tiff_files, order, idx, basenames,
                   n_pages, combined_path, temp_lzw, manifest, manifestWrites,
                   exitStatus, initial>>

\* original.replace(backup); FileNotFoundError is passed over, any other
\* OSError leaves safe_replace.
SrRenameOrig ==
    /\ pc = "sr_rename_orig"
    /\ IF ~Exists(tiff)
       THEN /\ fs' = fs
            /\ Logged("rename_to_bak", FALSE, tiff)
            /\ pc' = "sr_rename_new"
            /\ UNCHANGED <<idx, basenames, order, n_pages, combined_path, temp_lzw>>
       ELSE \/ /\ fs' = MoveToBackup(fs, tiff)
               /\ Logged("rename_to_bak", TRUE, tiff)
               /\ pc' = "sr_rename_new"
               /\ UNCHANGED <<idx, basenames, order, n_pages, combined_path, temp_lzw>>
            \/ /\ fs' = fs
               /\ Raise("rename_to_bak", tiff)
    /\ UNCHANGED <<thumbs, thumbsDir, im_cmd, tiff_files, manifest, manifestWrites,
                   exitStatus, initial, pre>>

\* newfile.replace(original): the publish point; a failure leaves safe_replace.
SrRenameNew ==
    /\ pc = "sr_rename_new"
    /\ \/ /\ Exists(temp_lzw)
          /\ fs' = ReplaceWithNew(fs, tiff, temp_lzw)
          /\ Logged("rename_new", TRUE, temp_lzw)
          /\ pc' = "sr_unlink_bak"
          /\ UNCHANGED <<idx, basenames, order, n_pages, combined_path, temp_lzw>>
       \/ /\ fs' = fs
          /\ Raise("rename_new", temp_lzw)
    /\ UNCHANGED <<thumbs, thumbsDir, im_cmd, tiff_files, manifest, manifestWrites,
                   exitStatus, initial, pre>>

\* try: backup.unlink() except Exception: pass; safe_replace returns.
SrUnlinkBak ==
    /\ pc = "sr_unlink_bak"
    /\ pc' = "cleanup"
    /\ \/ /\ Exists(BackupPath(tiff))
          /\ fs' = DropBackup(fs, tiff)
          /\ Logged("unlink_bak", TRUE, BackupPath(tiff))
       \/ /\ fs' = UnlinkBakFailed(fs, tiff)
          /\ Logged("unlink_bak", FALSE, BackupPath(tiff))
    /\ UNCHANGED <<thumbs, thumbsDir, im_cmd, tiff_files, order, idx, basenames,
                   n_pages, combined_path, temp_lzw, manifest, manifestWrites,
                   exitStatus, initial, pre>>

\* ------------------------------------------------------------ main: after publish

\* Mutant of DropComposite: the composite temp is not deleted.
KeepComposite(f, p) == f

\* combined_path.unlink(), when it succeeds
DropComposite(f, p) == Remove(f, p)

\* if combined_path != tiff and combined_path.exists(): try unlink, ignore failure
Cleanup ==
    /\ pc = "cleanup"
    /\ pc' = "thumb"
    /\ IF combined_path # tiff /\ Exists(combined_path)
       THEN \/ /\ fs' = DropComposite(fs, combined_path)
               /\ Logged("unlink_rgb", TRUE, combined_path)
            \/ /\ fs' = fs
               /\ Logged("unlink_rgb", FALSE, combined_path)
       ELSE UNCHANGED <<fs, log>>
    /\ UNCHANGED <<thumbs, thumbsDir, im_cmd, tiff_files, order, idx, basenames,
                   n_pages, combined_path, temp_lzw, manifest, manifestWrites,
                   exitStatus, initial, pre>>

\* Mutant of ThumbInput: the thumbnail is made from the image that was compressed.
ThumbInputCombined == combined_path

\* The in_path main() hands to make_thumbnail.
ThumbInput == tiff

\* make_thumbnail(im_cmd, mode, tiff, thumbs_dir / f"{base}.jpg"): mkdir the
\* parent, run the tool; a failure raises.  Either way the loop body ends.
MakeThumbnail ==
    /\ pc = "thumb"
    /\ thumbsDir' = TRUE
    /\ \/ /\ Exists(ThumbInput)
          /\ thumbs' = Put(thumbs, base, Apply(fs[ThumbInput], ThumbOp))
          /\ log' = Append(log, Event("thumbnail", TRUE, FALSE, ThumbInput))
          /\ idx' = idx + 1
          /\ pc' = "loop"
          /\ n_pages' = 0
          /\ combined_path' = NoPath
          /\ temp_lzw' = NoPath
          /\ UNCHANGED <<basenames, order>>
       \/ /\ thumbs' = thumbs
          /\ Raise("thumbnail", ThumbInput)
    /\ UNCHANGED <<fs, im_cmd, tiff_files, manifest, manifestWrites, exitStatus, initial, pre>>

\* ------------------------------------------------------------ specification

Next ==
    \/ MakeThumbsDir
    \/ FindTool
    \/ Enumerate
    \/ NoTiffs
    \/ SortAssets
    \/ NextAsset
    \/ WriteManifest
    \/ Identify
    \/ CombineCheck
    \/ CombineRun
    \/ LzwStale
    \/ LzwRun
    \/ SrStale
    \/ SrRenameOrig
    \/ SrRenameNew
    \/ SrUnlinkBak
    \/ Cleanup
    \/ MakeThumbnail

Spec == Init /\ [][Next]_vars

\* ------------------------------------------------------------ safe_replace alone

\* safe_replace(original, newfile) called as main() calls it (newfile is the
\* compressed temp of the asset or of its composite, and is there), with the
\* two files its code expects to be there or not: the original (the
\* FileNotFoundError it passes over) and a stale backup (backup.exists()).
InitPublish ==
    /\ \E original \in {p \in Pool : IsTiffName(p)} :
       \E in_path \in {original, TempCombinedPath(original)} :
       \E S \in SUBSET {original, TempOutPath(in_path), BackupPath(original)} :
          /\ TempOutPath(in_path) \in S
          /\ order = <<original>>
          /\ combined_path = in_path
          /\ temp_lzw = TempOutPath(in_path)
          /\ fs = [p \in S |-> IF p = TempOutPath(in_path)
                               THEN Apply(Original(original), LzwOp)
                               ELSE Original(p)]
          /\ basenames = <<Stem(original)>>
    /\ initial = fs
    /\ thumbs = NoFiles
    /\ thumbsDir = TRUE
    /\ im_cmd = "magick"
    /\ pc = "sr_stale"
    /\ tiff_files = order
    /\ idx = 1
    /\ n_pages = 0
    /\ manifest = [exists |-> FALSE, basenames |-> <<>>]
    /\ manifestWrites = 0
    /\ exitStatus = "running"
    /\ pre = NoFiles
    /\ log = <<>>

NextPublish ==
    \/ SrStale
    \/ SrRenameOrig
    \/ SrRenameNew
    \/ SrUnlinkBak

SpecPublish == InitPublish /\ [][NextPublish]_vars

\* ------------------------------------------------------------ sorted() alone

\* Largest number of assets handed to sorted() when the sort is run on its own.
MaxSorted == 3

\* Asset names for the sort: one prefix with the numbers 1, 2 and 10, the
\* prefix alone, a second spelling of one stem in upper case, and a stem that
\* starts with a digit.
SortPool ==
    { <<"i", "m", "g", "1", ".", "t", "i", "f">>,
      <<"i", "m", "g", "2", ".", "t", "i", "f">>,
      <<"i", "m", "g", "1", "0", ".", "t", "i", "f">>,
      <<"I", "M", "G", "2", ".", "t", "i", "f", "f">>,
      <<"i", "m", "g", ".", "t", "i", "f">>,
      <<"2", "a", ".", "t", "i", "f">> }

\* main() after the enumeration found some assets, in any root.iterdir() order,
\* about to sort them.
InitSort ==
    /\ \E S \in SUBSET SortPool :
          /\ S # {}
          /\ Cardinality(S) <= MaxSorted
          /\ fs = [p \in S |-> Original(p)]
          /\ tiff_files \in Perms(S)
    /\ initial = fs
    /\ thumbs = NoFiles
    /\ thumbsDir = TRUE
    /\ im_cmd = "magick"
    /\ pc = "check_empty"
    /\ order = <<>>
    /\ idx = 0
    /\ basenames = <<>>
    /\ n_pages = 0
    /\ combined_path = NoPath
    /\ temp_lzw = NoPath
    /\ manifest = [exists |-> FALSE, basenames |-> <<>>]
    /\ manifestWrites = 0
    /\ exitStatus = "running"
    /\ pre = NoFiles
    /\ log = <<>>

NextSort == SortAssets

SpecSort == InitSort /\ [][NextSort]_vars

\* ------------------------------------------------------------ claims

LastEvent == log[Len(log)]

\* safe_replace is between two of its steps.
InsidePublish == pc \in {"sr_rename_orig", "sr_rename_new", "sr_unlink_bak"}

\* safe_replace has returned to main().
PublishReturned == pc = "cleanup"

\* safe_replace was left by the exception of newfile.replace(original).
Step3Failed ==
    /\ pc = "loop"
    /\ log # <<>>
    /\ LastEvent.step = "rename_new"
    /\ LastEvent.raised

\* C1: between the steps of a publish call that found both the original and
\* the new content present, whenever the original path is missing the new
\* content is still at the new content's path.
C1_NeverBothMissing ==
    (InsidePublish /\ tiff \in DOMAIN pre /\ temp_lzw \in DOMAIN pre /\ ~Exists(tiff))
        => (Exists(temp_lzw) /\ fs[temp_lzw] = pre[temp_lzw])

C1_Witness ==
    /\ pc = "sr_rename_new"
    /\ tiff \in DOMAIN pre
    /\ temp_lzw \in DOMAIN pre
    /\ ~Exists(tiff)
    /\ Exists(temp_lzw)

\* C2 as stated: after every publish call that returns, the original path
\* holds the new content, the new content's path is gone and no backup remains.
C2_NoBackupRemains ==
    PublishReturned =>
        /\ Exists(tiff)
        /\ fs[tiff] = pre[temp_lzw]
        /\ ~Exists(temp_lzw)
        /\ ~Exists(BackupPath(tiff))

\* C2 amended: after every publish call that returns, the original path holds
\* the new content and the new content's path is gone; a backup remains only
\* when the final deletion of the backup failed.
C2_PublishedBackupOnlyIfUnlinkFailed ==
    PublishReturned =>
        /\ Exists(tiff)
        /\ fs[tiff] = pre[temp_lzw]
        /\ ~Exists(temp_lzw)
        /\ Exists(BackupPath(tiff)) => (LastEvent.step = "unlink_bak" /\ ~LastEvent.ok)

C2_Witness ==
    /\ PublishReturned
    /\ tiff \in DOMAIN pre
    /\ BackupPath(tiff) \in DOMAIN pre
    /\ ~Exists(BackupPath(tiff))
    /\ fs[tiff] = pre[temp_lzw]

\* C3 as stated: whenever step 3 fails, the call ends in error with the
\* original path absent and the backup holding the pre-replacement original.
C3_BackupHoldsOriginal ==
    Step3Failed =>
        LET t == order[LastEvent.asset]
        IN  /\ ~Exists(t)
            /\ Exists(BackupPath(t))
            /\ t \in DOMAIN pre
            /\ fs[BackupPath(t)] = pre[t]

\* C3 amended: whenever step 3 fails, the call ends in error with the
\* original path absent and nothing rolled back or retried; if the original
\* was there when the call started, the backup holds it, and if it was not,
\* the call made no backup.
C3_Step3FailureLeavesBackupOfExistingOriginal ==
    Step3Failed =>
        LET t == order[LastEvent.asset]
            b == BackupPath(t)
        IN  /\ ~Exists(t)
            /\ t \in DOMAIN pre => (Exists(b) /\ fs[b] = pre[t])
            /\ t \notin DOMAIN pre => (Exists(b) => (b \in DOMAIN pre /\ fs[b] = pre[b]))
            /\ \A p \in DOMAIN pre \ {t, b} : Exists(p) /\ fs[p] = pre[p]

C3_Witness ==
    /\ Step3Failed
    /\ order[LastEvent.asset] \in DOMAIN pre
    /\ LastEvent.input \in DOMAIN pre
    /\ BackupPath(order[LastEvent.asset]) \in DOMAIN fs

\* ---- the batch

StemsOf(paths) == [i \in 1..Len(paths) |-> Stem(paths[i])]

\* main() is inside its for loop (or between two rounds of it).
InLoop == pc \notin {"start", "find_tool", "enumerate", "check_empty", "exited"}

\* The TIFF-named files of the directory as main() found it.
InitialAssets == {p \in DOMAIN initial : IsTiffName(p)}

\* No element of paths sorts before an element that precedes it.
InNaturalOrder(paths) ==
    \A i, j \in 1..Len(paths) :
        i < j => KeyLess(natural_sort_key(Stem(paths[j])),
                         natural_sort_key(Stem(paths[i]))) = "F"

\* The position of a step in the loop body.
StepRank(step) ==
    CASE step = "identify" -> 1
      [] step = "unlink_stale_rgb" -> 2
      [] step = "combine" -> 3
      [] step = "unlink_stale_lzw" -> 4
      [] step = "compress" -> 5
      [] step = "unlink_stale_bak" -> 6
      [] step = "rename_to_bak" -> 7
      [] step = "rename_new" -> 8
      [] step = "unlink_bak" -> 9
      [] step = "unlink_rgb" -> 10
      [] step = "thumbnail" -> 11

RaisedFor(i) == \E k \in 1..Len(log) : log[k].asset = i /\ log[k].raised

\* C4: the base name of an asset is on the list from the moment its
\* processing starts and stays there whatever its steps do, so the manifest
\* written at the end lists the base names of all enumerated assets, each
\* once per asset, in sorted order.
C4_ManifestListsEveryAsset ==
    /\ InLoop =>
          basenames = StemsOf(SubSeq(order, 1, IF pc = "loop" THEN idx - 1 ELSE idx))
    /\ (pc = "exited" /\ manifest.exists) =>
          /\ manifest.basenames = StemsOf(order)
          /\ {order[i] : i \in 1..Len(order)} = InitialAssets
          /\ Len(order) = Cardinality(InitialAssets)
          /\ InNaturalOrder(order)

C4_Witness ==
    /\ pc = "exited"
    /\ manifest.exists
    /\ Len(manifest.basenames) = 2
    /\ ~RaisedFor(1)
    /\ RaisedFor(2)

C6_ManifestWrittenOnce ==
    /\ manifestWrites <= 1
    /\ (pc = "exited" /\ im_cmd = "magick") => (manifestWrites = 1 /\ manifest.exists)

\* C7 as stated: every run on a directory without TIFF-named files writes the
\* empty manifest and ends successfully without running a step on any file.
C7_EmptyDirectoryAlwaysManifest ==
    (pc = "exited" /\ InitialAssets = {}) =>
        /\ manifest = [exists |-> TRUE, basenames |-> <<>>]
        /\ exitStatus = "success"
        /\ log = <<>>

\* C7 amended: every run on a directory without TIFF-named files that found
\* the tool writes the empty manifest, once, and ends successfully; no run on
\* such a directory runs a step on any file or changes a file.
C7_EmptyDirectoryWithTool ==
    InitialAssets = {} =>
        /\ log = <<>>
        /\ fs = initial
        /\ thumbs = NoFiles
        /\ (pc = "exited" /\ im_cmd = "magick") =>
              /\ manifest = [exists |-> TRUE, basenames |-> <<>>]
              /\ manifestWrites = 1
              /\ exitStatus = "success"

C7_Witness ==
    /\ pc = "exited"
    /\ InitialAssets = {}
    /\ DOMAIN initial # {}
    /\ im_cmd = "magick"
    /\ manifest.exists
    /\ exitStatus = "success"

\* C8 as stated: a run that does not find the tool ends with the failure
\* status before any asset is touched; every other run ends successfully.
C8_ExitContract ==
    pc = "exited" =>
        IF im_cmd = "none"
        THEN exitStatus = "failure" /\ log = <<>> /\ fs = initial /\ ~manifest.exists
        ELSE exitStatus = "success"

\* C9: every thumbnail step takes the asset's own path as its input and
\* comes after that asset's publish has returned; when it succeeds the
\* thumbnail is made of the content the publish put at the asset's path; an
\* asset with a failed compositing, compression or publish step gets none.
C9_ThumbnailAfterPublish ==
    /\ \A k \in 1..Len(log) :
          log[k].step = "thumbnail" =>
              /\ log[k].input = order[log[k].asset]
              /\ \E j \in 1..(k - 1) :
                    /\ log[j].asset = log[k].asset
                    /\ log[j].step = "rename_new"
                    /\ log[j].ok
              /\ \A j \in 1..(k - 1) : log[j].asset = log[k].asset => ~log[j].raised
    /\ (pc = "loop" /\ log # <<>> /\ LastEvent.step = "thumbnail" /\ LastEvent.ok) =>
          LET t == order[LastEvent.asset]
          IN  /\ Exists(t)
              /\ thumbs[Stem(t)] = Apply(fs[t], ThumbOp)
              /\ fs[t].ops # <<>>
              /\ fs[t].ops[Len(fs[t].ops)] = LzwOp

C9_Witness ==
    /\ pc = "loop"
    /\ log # <<>>
    /\ LastEvent.step = "thumbnail"
    /\ LastEvent.ok
    /\ \E k \in 1..Len(log) :
          log[k].asset = LastEvent.asset /\ log[k].step = "combine" /\ log[k].ok

\* The operation names of a content, in the order they were applied.
OpNames(c) == [i \in 1..Len(c.ops) |-> c.ops[i].name]

\* c is the complete compressed result of the asset at path t.
CompleteResult(t, c) ==
    /\ c.src = t
    /\ OpNames(c) \in {<<"lzw">>, <<"combine", "lzw">>}

\* The publish of the asset at t has moved the original away and has not put
\* the new content in its place: safe_replace is between its steps 2 and 3, or
\* was left by the failure of step 3.
PublishWindow(t) ==
    \/ pc = "sr_rename_new" /\ tiff = t
    \/ \E k \in 1..Len(log) :
          log[k].step = "rename_new" /\ log[k].raised /\ order[log[k].asset] = t

\* C10 as stated, the publish window read as lasting until step 3 succeeds:
\* the path of every asset holds its original content or its complete
\* compressed result, or is absent inside the publish window; after a failed
\* compositing or compression it still holds the original content.
C10_FinalPathOriginalOrResult ==
    /\ \A t \in InitialAssets :
          IF Exists(t)
          THEN fs[t] = initial[t] \/ CompleteResult(t, fs[t])
          ELSE PublishWindow(t)
    /\ (pc = "loop" /\ log # <<>> /\ LastEvent.raised
            /\ LastEvent.step \in {"combine", "compress"}) =>
          /\ Exists(order[LastEvent.asset])
          /\ fs[order[LastEvent.asset]] = initial[order[LastEvent.asset]]

\* ---- the sort order

AllDigits(t) == t # <<>> /\ \A i \in 1..Len(t) : IsDigit(t[i])

\* a is p+m and b is p+n for some prefix p and numbers m < n.
SamePrefixSmallerNumber(a, b) ==
    \E k \in 0..Len(a) :
        /\ k <= Len(b)
        /\ SubSeq(a, 1, k) = SubSeq(b, 1, k)
        /\ AllDigits(SubSeq(a, k + 1, Len(a)))
        /\ AllDigits(SubSeq(b, k + 1, Len(b)))
        /\ IntOf(SubSeq(a, k + 1, Len(a))) < IntOf(SubSeq(b, k + 1, Len(b)))

IsPermutation(s, t) ==
    /\ Len(s) = Len(t)
    /\ {s[i] : i \in 1..Len(s)} = {t[i] : i \in 1..Len(t)}
    /\ \A i, j \in 1..Len(s) : i # j => s[i] # s[j]

\* C11 as stated: the sort orders every set of assets (the order is total, so
\* the sort always returns): the loop gets all enumerated assets, none sorting
\* before one that precedes it, p+m before p+n whenever m < n.
C11_TotalNaturalOrder ==
    /\ exitStatus # "traceback"
    /\ pc = "loop" =>
          /\ IsPermutation(order, tiff_files)
          /\ InNaturalOrder(order)
          /\ \A i, j \in 1..Len(order) :
                i < j => ~SamePrefixSmallerNumber(Stem(order[j]), Stem(order[i]))

\* ---- compositing

\* C12: a compositing run that succeeds combines pages 0, 1, 1 of the asset
\* when the page count is 2 and pages 0, 1, 2 when it is 3 or more, writes the
\* result to the composite temp path, which differs from the asset's path, and
\* leaves every other file, the asset included, as it was.
C12_ChannelPolicy ==
    [][(pc = "combine_run" /\ pc' = "lzw_stale") =>
          LET out == TempCombinedPath(tiff)
              pages == IF n_pages = 2 THEN <<0, 1, 1>> ELSE <<0, 1, 2>>
          IN  /\ n_pages >= 2
              /\ out # tiff
              /\ combined_path' = out
              /\ out \in DOMAIN fs'
              /\ fs'[out] = Apply(fs[tiff], [name |-> "combine", pages |-> pages])
              /\ \A q \in DOMAIN fs \ {out} : q \in DOMAIN fs' /\ fs'[q] = fs[q]
              /\ DOMAIN fs' = DOMAIN fs \cup {out}]_vars

C12_Witness ==
    /\ pc = "lzw_stale"
    /\ combined_path = TempCombinedPath(tiff)
    /\ Exists(combined_path)
    /\ Exists(tiff)
    /\ fs[combined_path] = Apply(fs[tiff], [name |-> "combine", pages |-> <<0, 1, 1>>])

\* C13 as stated: for an asset of at most one page composite returns the
\* asset's own path and changes no file, and no composite temp of that asset
\* exists afterwards.
C13_NoCompositeExistsAfterwards ==
    (pc = "lzw_stale" /\ combined_path = tiff) => ~Exists(TempCombinedPath(tiff))

\* C13 amended: for an asset of at most one page composite returns the
\* asset's own path and creates, modifies or deletes no file; a composite temp
\* that was there before the call is still there, unchanged.
C13_SinglePagePassThrough ==
    [][(pc = "combine_check" /\ n_pages <= 1) =>
          /\ combined_path' = tiff
          /\ fs' = fs
          /\ thumbs' = thumbs
          /\ pc' = "lzw_stale"]_vars

C13_Witness ==
    /\ pc = "lzw_stale"
    /\ combined_path = tiff
    /\ Exists(TempCombinedPath(tiff))
    /\ fs[TempCombinedPath(tiff)] = initial[TempCombinedPath(tiff)]

\* ---- the page count

\* C14 as stated: whatever the page-count query prints, the page count
\* handed to the compositing step is an integer that is at least 1.
C14_PageCountAtLeastOne ==
    pc = "combine_check" => n_pages >= 1

\* ---- best-effort deletions

\* The deletions main() and its helpers wrap in "try ... except Exception: pass".
BestEffortSteps ==
    {"unlink_stale_rgb", "unlink_stale_lzw", "unlink_stale_bak", "unlink_bak", "unlink_rgb"}

\* Where main() may be while a best-effort deletion is the last step executed:
\* at the statement that follows it, or past an "if" that had nothing to do.
StepsAfter(step) ==
    CASE step = "unlink_stale_rgb" -> {"combine_run"}
      [] step = "unlink_stale_lzw" -> {"lzw_run"}
      [] step = "unlink_stale_bak" -> {"sr_rename_orig"}
      [] step = "unlink_bak" -> {"cleanup", "thumb"}
      [] step = "unlink_rgb" -> {"thumb"}

\* C15: no best-effort deletion raises, failed or not; after each of them the
\* same asset goes on with the statement that follows; after a deletion that
\* follows step 3 the asset's path still holds the new content; and every
\* asset whose step 3 succeeded gets its thumbnail step.
C15_CleanupFailuresSwallowed ==
    /\ \A k \in 1..Len(log) : log[k].step \in BestEffortSteps => ~log[k].raised
    /\ (log # <<>> /\ LastEvent.step \in BestEffortSteps) =>
          /\ pc \in StepsAfter(LastEvent.step)
          /\ idx = LastEvent.asset
          /\ LastEvent.step \in {"unlink_bak", "unlink_rgb"} =>
                /\ Exists(tiff)
                /\ fs[tiff] = pre[temp_lzw]
                /\ ~Exists(temp_lzw)
    /\ \A k \in 1..Len(log) :
          (log[k].step = "rename_new" /\ log[k].ok /\ log[k].asset < idx) =>
              \E j \in (k + 1)..Len(log) :
                  log[j].asset = log[k].asset /\ log[j].step = "thumbnail"

C15_Witness ==
    /\ pc = "loop"
    /\ log # <<>>
    /\ LastEvent.step = "thumbnail"
    /\ LastEvent.ok
    /\ Exists(BackupPath(order[LastEvent.asset]))
    /\ \E k \in 1..Len(log) :
          log[k].asset = LastEvent.asset /\ log[k].step = "unlink_bak" /\ ~log[k].ok
    /\ \E k \in 1..Len(log) :
          log[k].asset = LastEvent.asset /\ log[k].step = "unlink_rgb" /\ ~log[k].ok

\* ---- transient files

\* The round of asset i ran the step (and it did not raise).
Ran(i, step) ==
    \E k \in 1..Len(log) : log[k].asset = i /\ log[k].step = step /\ ~log[k].raised

\* The round of asset i has just ended with every step and every deletion
\* it attempted succeeding.
RoundSucceeded(i) ==
    /\ pc = "loop"
    /\ log # <<>>
    /\ LastEvent.asset = i
    /\ LastEvent.step = "thumbnail"
    /\ \A k \in 1..Len(log) : log[k].asset = i => log[k].ok

\* The round of asset i has just been ended by the failure of the step.
RoundFailedAt(i, step) ==
    /\ pc = "loop"
    /\ log # <<>>
    /\ LastEvent.asset = i
    /\ LastEvent.step = step
    /\ LastEvent.raised

\* After a fully successful round the asset's path holds the result of
\* compressing the image that was compressed, and its thumbnail is there.
ResultPublished(i) ==
    LET t == order[i]
        src == IF Ran(i, "combine") THEN TempCombinedPath(t) ELSE t
    IN  /\ Exists(t)
        /\ src \in DOMAIN pre
        /\ fs[t] = Apply(pre[src], LzwOp)
        /\ Ran(i, "combine") =>
              (pre[src].ops # <<>> /\ pre[src].ops[Len(pre[src].ops)].name = "combine")
        /\ Stem(t) \in DOMAIN thumbs
        /\ thumbs[Stem(t)] = Apply(fs[t], ThumbOp)

\* C16 as stated: after a fully successful round no composite temp, no
\* compressed temp and no backup of the asset exists, its path holds the
\* compressed result and its thumbnail exists; after a compositing that
\* succeeded and a later step that failed the composite temp is still there.
C16_NoTransientRemains ==
    \A i \in 1..Len(order) :
        LET t == order[i]
        IN  /\ RoundSucceeded(i) =>
                  /\ ~Exists(TempCombinedPath(t))
                  /\ ~Exists(TempOutPath(t))
                  /\ ~Exists(TempOutPath(TempCombinedPath(t)))
                  /\ ~Exists(BackupPath(t))
                  /\ ResultPublished(i)
            /\ (Ran(i, "combine") /\ \E step \in {"compress", "rename_to_bak",
                                                   "rename_new", "thumbnail"} :
                                         RoundFailedAt(i, step)) =>
                  Exists(TempCombinedPath(t))

\* C16 amended: after a fully successful round none of the transient files
\* the round wrote remains (the composite temp if it composited, the
\* compressed temp of the image it compressed, the backup), the asset's path
\* holds the compressed result and its thumbnail exists; a composite temp
\* the round had no reason to touch is left as it was.  After a compositing
\* that succeeded, a failed compression or publish leaves the composite temp
\* in place; a failed thumbnail step comes after the cleanup, which has
\* removed it.
C16_OwnTransientsRemoved ==
    \A i \in 1..Len(order) :
        LET t == order[i]
            c == TempCombinedPath(t)
        IN  /\ RoundSucceeded(i) =>
                  /\ Ran(i, "combine") => (~Exists(c) /\ ~Exists(TempOutPath(c)))
                  /\ ~Ran(i, "combine") =>
                        /\ ~Exists(TempOutPath(t))
                        /\ Exists(c) => (c \in DOMAIN pre /\ fs[c] = pre[c])
                  /\ ~Exists(BackupPath(t))
                  /\ ResultPublished(i)
            /\ (Ran(i, "combine") /\ \E step \in {"compress", "rename_to_bak", "rename_new"} :
                                         RoundFailedAt(i, step)) =>
                  /\ Exists(c)
                  /\ fs[c].ops # <<>>
                  /\ fs[c].ops[Len(fs[c].ops)].name = "combine"
            /\ (Ran(i, "combine") /\ RoundFailedAt(i, "thumbnail")) =>
                  (Exists(c) =>
                      \E k \in 1..Len(log) :
                          log[k].asset = i /\ log[k].step = "unlink_rgb" /\ ~log[k].ok)

C16_Witness ==
    /\ RoundSucceeded(1)
    /\ Ran(1, "combine")
    /\ Ran(1, "unlink_rgb")
    /\ ~Exists(TempCombinedPath(order[1]))
    /\ Stem(order[1]) \in DOMAIN thumbs

\* ---- files shared between assets

\* The files of the working directory an executed step creates, renames,
\* overwrites or deletes, and the asset's own path, which its round reads.
TouchedBy(e) ==
    CASE e.step = "identify" -> {e.input}
      [] e.step \in BestEffortSteps -> {e.input}
      [] e.step = "combine" -> {TempCombinedPath(e.input)}
      [] e.step = "compress" -> {TempOutPath(e.input)}
      [] e.step = "rename_to_bak" -> {e.input, BackupPath(e.input)}
      [] e.step = "rename_new" -> {e.input, order[e.asset]}
      [] e.step = "thumbnail" -> {}

Touched(i) == UNION {TouchedBy(log[k]) : k \in {n \in 1..Len(log) : log[n].asset = i}}

\* The round of asset i ran the thumbnail tool on thumbs/<stem>.jpg.
WroteThumb(i) == \E k \in 1..Len(log) : log[k].asset = i /\ log[k].step = "thumbnail"

\* C17 as stated: the rounds of two different assets touch disjoint files of
\* the working directory and write different thumbnail files.
C17_AssetsShareNoFile ==
    \A i, j \in 1..Len(order) :
        i < j =>
            /\ Touched(i) \cap Touched(j) = {}
            /\ (WroteThumb(i) /\ WroteThumb(j)) => Stem(order[i]) # Stem(order[j])

\* ---- assets with the same base name

\* How often x occurs in the list.
Count(list, x) == Cardinality({i \in 1..Len(list) : list[i] = x})

\* C18 as stated: a base name shared by two assets appears once in the
\* written manifest.
C18_SharedBaseListedOnce ==
    (pc = "exited" /\ manifest.exists) =>
        \A i, j \in 1..Len(manifest.basenames) :
            i # j => manifest.basenames[i] # manifest.basenames[j]

\* C18 amended: nothing on the list is overwritten or removed: the written
\* manifest holds each base name once for every enumerated asset that has it,
\* in processing order, so a base name shared by two assets appears twice.
C18_SharedBaseListedPerAsset ==
    /\ InLoop => \A i \in 1..Len(basenames) : basenames[i] = Stem(order[i])
    /\ (pc = "exited" /\ manifest.exists) =>
          /\ Len(manifest.basenames) = Len(order)
          /\ \A i \in 1..Len(order) : manifest.basenames[i] = Stem(order[i])
          /\ \A t \in InitialAssets :
                Count(manifest.basenames, Stem(t)) =
                    Cardinality({u \in InitialAssets : Stem(u) = Stem(t)})

C18_Witness ==
    /\ pc = "exited"
    /\ manifest.exists
    /\ Len(manifest.basenames) = 2
    /\ manifest.basenames[1] = manifest.basenames[2]
    /\ order[1] # order[2]

\* ---- transient names

EndsWith(name, ext) ==
    Len(name) > Len(ext) /\ SubSeq(name, Len(name) - Len(ext) + 1, Len(name)) = ext

\* The name is that of a composite temp, a compressed temp or a backup.
IsTransientName(p) ==
    EndsWith(p, RgbTmpExt) \/ EndsWith(p, LzwTmpExt) \/ EndsWith(p, BakExt)

\* C19 as stated: no composite temp, compressed temp or backup is enumerated
\* as an asset, driven through the pipeline or recorded in the manifest.
C19_TransientsNeverAssets ==
    /\ \A i \in 1..Len(tiff_files) : ~IsTransientName(tiff_files[i])
    /\ \A k \in 1..Len(log) : log[k].step = "identify" => ~IsTransientName(log[k].input)
    /\ \A p \in DOMAIN initial :
          IsTransientName(p) =>
              \A i \in 1..Len(manifest.basenames) : manifest.basenames[i] # Stem(p)

====
